---- MODULE Spec2Model ----
(***************************************************************************)
(* KTG.py: a Streamlit page that computes the technical readiness          *)
(* coefficient  KTG = KTG_zakl * T_vosst_sist / T_vosst_nov_ishod,          *)
(* clamped to [0.01, 1], sweeps it over a range of recovery times and      *)
(* shows the result.                                                       *)
(*                                                                         *)
(* Numbers.  Python floats are modelled as exact rationals, records        *)
(* [n |-> numerator, d |-> denominator] in lowest terms with d > 0: the    *)
(* value each float operation rounds.  The times of a sweep (integers and  *)
(* halves) and the values of the scenarios checked below are exact in      *)
(* double arithmetic too; elsewhere a float result is the rational one up  *)
(* to rounding, and rounding is monotone, so it keeps order and the clamp. *)
(***************************************************************************)
EXTENDS Integers, Sequences, FiniteSets, TLC

VARIABLES
    \* ---- direct calls of calculate_ktg (CalcSpec)
    call,        \* the latest call: its arguments and its outcome
    prevCall,    \* the call before it, when it shares arguments with `call`
    \* ---- direct calls of generate_data (SweepSpec)
    sweep,       \* the latest call of generate_data: arguments and outcome
    \* ---- the Streamlit page (Spec, FairSpec)
    w_ktg_zakl,      \* value held by the slider of line 45
    w_t_vosst_sist,  \* value held by the number input of line 56
    t_min,           \* value held by the number input of line 67
    t_max,           \* value held by the number input of line 69
    clicked,         \* the buttons whose click waits for the next script run
    buttons,         \* the buttons that read True in the run being executed
    session_state,   \* st.session_state: a function from keys to values
    drawn,           \* the widget groups the page shows: "sidebar", "tabs"
    pc,              \* "idle" | "pending" (a run is requested) | a script step
    run              \* what the script run in progress / just ended has done

calcVars  == <<call, prevCall>>
sweepVars == <<sweep>>
appVars   == <<w_ktg_zakl, w_t_vosst_sist, t_min, t_max, clicked, buttons,
               session_state, drawn, pc, run>>
vars      == <<call, prevCall, sweep, w_ktg_zakl, w_t_vosst_sist, t_min, t_max,
               clicked, buttons, session_state, drawn, pc, run>>

(***************************************************************************)
(* Rational arithmetic: the float operations of the source.                *)
(***************************************************************************)
Abs(x) == IF x < 0 THEN -x ELSE x

RECURSIVE GCD(_, _)
GCD(a, b) == IF b = 0 THEN a ELSE GCD(b, a % b)

\* n/d (d # 0) in lowest terms, the sign carried by the numerator.
Rat(n, d) ==
    IF d = 0 THEN [n |-> n, d |-> 0] ELSE
    LET g == GCD(Abs(n), Abs(d))
        s == IF d < 0 THEN -1 ELSE 1
    IN  [n |-> (s * n) \div g, d |-> (s * d) \div g]

FromInt(k) == Rat(k, 1)

RAdd(x, y) == Rat(x.n * y.d + y.n * x.d, x.d * y.d)
RSub(x, y) == Rat(x.n * y.d - y.n * x.d, x.d * y.d)
RMul(x, y) == Rat(x.n * y.n, x.d * y.d)
\* x / y.  Python raises ZeroDivisionError on y = 0; the callers below test for
\* it before they use the quotient.
RDiv(x, y) == Rat(x.n * y.d, x.d * y.n)
RLe(x, y)  == x.n * y.d <= y.n * x.d
RLt(x, y)  == x.n * y.d <  y.n * x.d

\* ceil(x) of a rational, as numpy's arange takes it for the length.
Ceil(x) == -((-x.n) \div x.d)

Zero    == FromInt(0)
One     == FromInt(1)
Half    == Rat(1, 2)
Hundred == FromInt(100)
\* the literal 0.01 of lines 27 and 34
KtgFloor == Rat(1, 100)

(***************************************************************************)
(* calculate_ktg, lines 20-36.                                             *)
(***************************************************************************)
\* Python's built-ins on two arguments: min(a, b) is b only when b < a,
\* max(a, b) is b only when b > a.
PyMin(a, b) == IF RLt(b, a) THEN b ELSE a
PyMax(a, b) == IF RLt(a, b) THEN b ELSE a

\* line 24: if t_vosst_nov_ishod <= 0: raise ValueError
BadTime_Strict(t_vosst_nov_ishod) == RLt(t_vosst_nov_ishod, Zero)
BadTime(t_vosst_nov_ishod) == RLe(t_vosst_nov_ishod, Zero)

\* line 27: if not (0.01 <= ktg_zakl <= 1): raise ValueError
BadBaseline(ktg_zakl) == ~(RLe(KtgFloor, ktg_zakl) /\ RLe(ktg_zakl, One))

\* line 31: ktg_zakl * (t_vosst_sist / t_vosst_nov_ishod)
RawKtg_NoBaseline(ktg_zakl, t_vosst_sist, t_vosst_nov_ishod) ==
    RDiv(t_vosst_sist, t_vosst_nov_ishod)
RawKtg_Inverted(ktg_zakl, t_vosst_sist, t_vosst_nov_ishod) ==
    RMul(ktg_zakl, RMul(t_vosst_sist, t_vosst_nov_ishod))
RawKtg(ktg_zakl, t_vosst_sist, t_vosst_nov_ishod) ==
    RMul(ktg_zakl, RDiv(t_vosst_sist, t_vosst_nov_ishod))

\* line 34: max(0.01, min(1, ktg_result))
Clamp_NoCeiling(ktg_result) == PyMax(KtgFloor, ktg_result)
Clamp_NoFloor(ktg_result) == PyMin(One, ktg_result)
Clamp(ktg_result) == PyMax(KtgFloor, PyMin(One, ktg_result))

\* The outcome of a call: the value returned, or the ValueError raised.
Returned(v) == [err |-> "none", value |-> v]
Raised      == [err |-> "ValueError", value |-> Zero]
DivByZero   == [err |-> "ZeroDivisionError", value |-> Zero]

calculate_ktg(ktg_zakl, t_vosst_sist, t_vosst_nov_ishod) ==
    IF BadTime(t_vosst_nov_ishod) THEN Raised
    ELSE IF BadBaseline(ktg_zakl) THEN Raised
    ELSE IF t_vosst_nov_ishod.n = 0 THEN DivByZero   \* the division of line 31
    ELSE Returned(Clamp(RawKtg(ktg_zakl, t_vosst_sist, t_vosst_nov_ishod)))

(***************************************************************************)
(* generate_data, lines 118-124.                                           *)
(***************************************************************************)
\* numpy.arange(start, stop, step): ceil((stop - start) / step) elements (none
\* when that is not positive), element i (from 0) being start + i * step.
arange(start, stop, step) ==
    LET len == Ceil(RDiv(RSub(stop, start), step))
    IN  [i \in 1..(IF len > 0 THEN len ELSE 0) |->
            RAdd(start, RMul(FromInt(i - 1), step))]

\* line 120: np.arange(t_min, t_max + 0.5, 0.5)
SweepRange_Exclusive(tMin, tMax) == arange(FromInt(tMin), FromInt(tMax), Half)
SweepRange(tMin, tMax) ==
    arange(FromInt(tMin), RAdd(FromInt(tMax), Half), Half)

\* line 122: (ktg - ktg_zakl) / ktg_zakl * 100
PercentChange_Fraction(ktg, ktg_zakl) == RDiv(RSub(ktg, ktg_zakl), ktg_zakl)
PercentChange(ktg, ktg_zakl) ==
    RMul(RDiv(RSub(ktg, ktg_zakl), ktg_zakl), Hundred)

\* The outcome of generate_data: the three sequences, or the ValueError that
\* calculate_ktg raised inside the comprehension of line 121.
generate_data(ktg_zakl, t_vosst_sist, tMin, tMax) ==
    LET t_vosst_range == SweepRange(tMin, tMax)
        calls == [i \in DOMAIN t_vosst_range |->
                     calculate_ktg(ktg_zakl, t_vosst_sist, t_vosst_range[i])]
    IN  IF \E i \in DOMAIN calls : calls[i].err # "none"
        THEN [err |-> calls[CHOOSE i \in DOMAIN calls :
                              /\ calls[i].err # "none"
                              /\ \A j \in 1..(i - 1) : calls[j].err = "none"].err,
              t_vosst_range |-> << >>,
              ktg_values |-> << >>, ktg_change_percent |-> << >>]
        ELSE IF ktg_zakl.n = 0 /\ Len(calls) > 0     \* the division of line 122
        THEN [err |-> "ZeroDivisionError", t_vosst_range |-> << >>,
              ktg_values |-> << >>, ktg_change_percent |-> << >>]
        ELSE [err |-> "none",
              t_vosst_range |-> t_vosst_range,
              ktg_values |-> [i \in DOMAIN calls |-> calls[i].value],
              ktg_change_percent |->
                  [i \in DOMAIN calls |-> PercentChange(calls[i].value, ktg_zakl)]]

(***************************************************************************)
(* Inputs of the direct calls.                                             *)
(***************************************************************************)
CalcGridMax == 4
MaxSweepT   == 6

\* times: a grid of halves around zero, and the values of the spec's scenarios
TimeInputs ==
    {Rat(n, 2) : n \in -CalcGridMax..CalcGridMax}
      \cup {Rat(1, 20), FromInt(4), FromInt(10), FromInt(-5), FromInt(100)}

\* baselines: a grid of quarters across [0.01, 1] and beyond both ends, the two
\* boundary values and their nearest neighbours outside
BaselineInputs ==
    {Rat(n, 4) : n \in -1..(CalcGridMax + 2)}
      \cup {Rat(1, 100), Rat(1, 20), Rat(1, 200), Rat(101, 100)}

SweepBaselines   == {Zero, Rat(1, 100), Rat(1, 20), Half, One, Rat(3, 2)}
SweepSystemTimes == {FromInt(-1), Zero, Half, FromInt(2), FromInt(100)}

NoOutput == [err |-> "none", t_vosst_range |-> << >>,
             ktg_values |-> << >>, ktg_change_percent |-> << >>]
NoCall  == [made |-> FALSE, b |-> Zero, s |-> Zero, h |-> Zero, out |-> Raised]
NoSweep == [made |-> FALSE, b |-> Zero, s |-> Zero, tMin |-> 0, tMax |-> 0,
            out |-> NoOutput]

CallOf(b, s, h) ==
    [made |-> TRUE, b |-> b, s |-> s, h |-> h, out |-> calculate_ktg(b, s, h)]

(***************************************************************************)
(* The Streamlit page.                                                     *)
(***************************************************************************)
\* widget parameters of lines 45-70
t_min_default == 4
t_max_default == 24
RangeLow      == 1
RangeHigh     == 48
\* the range bounds the model lets the user type, besides the two defaults
MaxRangeT     == 3

ktg_zakl_default     == Rat(1, 20)    \* value=0.05, lines 49, 89, 95, 106
t_vosst_sist_default == FromInt(2)    \* value=2.0, lines 60, 96, 108
t_vosst_sist_optim   == Rat(3, 2)     \* 1.5, line 90

SliderChoices     == {Rat(1, 100), Rat(1, 20), Half, One}
SystemTimeChoices == {Rat(1, 10), Rat(3, 2), FromInt(2), FromInt(RangeHigh)}
RangeChoices ==
    {t \in RangeLow..RangeHigh :
        t <= MaxRangeT \/ t \in {t_min_default, t_max_default}}

\* st.session_state as a function; assigning a key adds it when absent
SetKey(ss, k, v) ==
    [x \in (DOMAIN ss) \cup {k} |-> IF x = k THEN v ELSE ss[x]]
\* lines 105-108: if key not in st.session_state: st.session_state.key = v
SetDefault(ss, k, v) == IF k \in DOMAIN ss THEN ss ELSE SetKey(ss, k, v)
EmptySession == [x \in {} |-> TRUE]

\* max(ktg_values), line 206, of a non-empty list
MaxOf(seq) ==
    seq[CHOOSE i \in DOMAIN seq : \A j \in DOMAIN seq : RLe(seq[j], seq[i])]

NoRun ==
    [ended |-> "none", generated |-> FALSE,
     ktg_zakl |-> Zero, t_vosst_sist |-> Zero, t_min |-> 0, t_max |-> 0,
     out |-> NoOutput, ktg_max |-> Zero]

Init ==
    /\ call = NoCall
    /\ prevCall = NoCall
    /\ sweep = NoSweep
    /\ w_ktg_zakl = ktg_zakl_default
    /\ w_t_vosst_sist = t_vosst_sist_default
    /\ t_min = t_min_default
    /\ t_max = t_max_default
    /\ clicked = {}
    /\ buttons = {}
    /\ session_state = EmptySession
    /\ drawn = {}
    /\ pc = "pending"          \* opening the page requests the first run
    /\ run = NoRun

(***************************************************************************)
(* CalcSpec: calls of calculate_ktg.                                       *)
(***************************************************************************)
\* a first call, on fresh arguments
Call(b, s, h) ==
    /\ ~call.made
    /\ call' = CallOf(b, s, h)
    /\ prevCall' = NoCall
    /\ UNCHANGED <<sweepVars, appVars>>

\* the same baseline and system time again, with another historical time
CallOtherHistoricalTime(h) ==
    /\ call.made
    /\ h # call.h
    /\ prevCall' = call
    /\ call' = CallOf(call.b, call.s, h)
    /\ UNCHANGED <<sweepVars, appVars>>

\* the same baseline and historical time again, with another system time
CallOtherSystemTime(s) ==
    /\ call.made
    /\ s # call.s
    /\ prevCall' = call
    /\ call' = CallOf(call.b, s, call.h)
    /\ UNCHANGED <<sweepVars, appVars>>

\* the caller drops the results and starts over
ForgetCalls ==
    /\ call.made
    /\ call' = NoCall
    /\ prevCall' = NoCall
    /\ UNCHANGED <<sweepVars, appVars>>

CalcNext ==
    \/ \E b \in BaselineInputs, s \in TimeInputs, h \in TimeInputs : Call(b, s, h)
    \/ \E h \in TimeInputs : CallOtherHistoricalTime(h)
    \/ \E s \in TimeInputs : CallOtherSystemTime(s)
    \/ ForgetCalls

CalcSpec == Init /\ [][CalcNext]_vars

(***************************************************************************)
(* SweepSpec: calls of generate_data.                                      *)
(***************************************************************************)
CallGenerate(b, s, tMin, tMax) ==
    /\ ~sweep.made
    /\ sweep' = [made |-> TRUE, b |-> b, s |-> s, tMin |-> tMin, tMax |-> tMax,
                 out |-> generate_data(b, s, tMin, tMax)]
    /\ UNCHANGED <<calcVars, appVars>>

\* the caller drops the result and starts over
ForgetSweep ==
    /\ sweep.made
    /\ sweep' = NoSweep
    /\ UNCHANGED <<calcVars, appVars>>

SweepNext ==
    \/ \E b \in SweepBaselines, s \in SweepSystemTimes,
          tMin \in 0..MaxSweepT, tMax \in 0..MaxSweepT : CallGenerate(b, s, tMin, tMax)
    \/ ForgetSweep

SweepSpec == Init /\ [][SweepNext]_vars

(***************************************************************************)
(* Spec: the page.  Streamlit executes the script from top to bottom once  *)
(* per requested run; a widget change, a button click and st.rerun() each  *)
(* request one.  A button reads True only in the run its click requested.  *)
(* The script hands control to the runtime at every st.* call; an          *)
(* interaction that arrives while a run executes stops that run there and  *)
(* requests a new one.  The run is modelled in four steps, cut where its    *)
(* effects on the state lie: the sidebar with its presets (lines 12-97),   *)
(* the session state and the sweep (99-127), the tabs (129-507), the       *)
(* closing rerun block (509-512).                                          *)
(***************************************************************************)
\* A widget can be used once a run has drawn it; a stopped run leaves what
\* the page showed before.
UserMayUse(group) == group \in drawn

\* What every interaction does besides changing its widget: it requests a run.
\* A run that is executing is stopped and the clicks it was started for are
\* gone; a request that has not started yet keeps its clicks.
RequestRun(newClicks) ==
    /\ pc' = "pending"
    /\ run' = NoRun
    /\ buttons' = {}
    /\ clicked' = IF pc = "pending" THEN clicked \cup newClicks ELSE newClicks
    /\ UNCHANGED <<session_state, drawn>>

\* line 45: the user moves the slider
SetSlider(v) ==
    /\ UserMayUse("sidebar")
    /\ v # w_ktg_zakl
    /\ w_ktg_zakl' = v
    /\ RequestRun({})
    /\ UNCHANGED <<calcVars, sweepVars, w_t_vosst_sist, t_min, t_max>>

\* line 56: the user changes the system recovery time
SetSystemTime(v) ==
    /\ UserMayUse("sidebar")
    /\ v # w_t_vosst_sist
    /\ w_t_vosst_sist' = v
    /\ RequestRun({})
    /\ UNCHANGED <<calcVars, sweepVars, w_ktg_zakl, t_min, t_max>>

\* line 67: the user changes the lower bound of the range
SetTMin(t) ==
    /\ UserMayUse("sidebar")
    /\ t # t_min
    /\ t_min' = t
    /\ RequestRun({})
    /\ UNCHANGED <<calcVars, sweepVars, w_ktg_zakl, w_t_vosst_sist, t_max>>

\* line 69: the user changes the upper bound of the range
SetTMax(t) ==
    /\ UserMayUse("sidebar")
    /\ t # t_max
    /\ t_max' = t
    /\ RequestRun({})
    /\ UNCHANGED <<calcVars, sweepVars, w_ktg_zakl, w_t_vosst_sist, t_min>>

\* lines 75, 88, 94: the user presses one of the three buttons
Click(b) ==
    /\ UserMayUse("sidebar")
    /\ RequestRun({b})
    /\ UNCHANGED <<calcVars, sweepVars, w_ktg_zakl, w_t_vosst_sist, t_min, t_max>>

\* lines 236, 238, 407, 423, 457, 492: the row slider, the status filter and
\* the download buttons of the tabs; their values feed the table display only
UseTabWidget(w) ==
    /\ UserMayUse("tabs")
    /\ RequestRun({})
    /\ UNCHANGED <<calcVars, sweepVars, w_ktg_zakl, w_t_vosst_sist, t_min, t_max>>

\* a run is requested and it is not st.rerun() that requested it
RequestedByUser == pc = "pending" /\ run.ended # "rerun"

UserAction ==
    \/ \E v \in SliderChoices : SetSlider(v)
    \/ \E v \in SystemTimeChoices : SetSystemTime(v)
    \/ \E t \in RangeChoices : SetTMin(t)
    \/ \E t \in RangeChoices : SetTMax(t)
    \/ \E b \in {"calculate", "optimistic", "realistic"} : Click(b)
    \/ \E w \in {"show_rows", "status_filter", "download"} : UseTabWidget(w)

\* the runtime starts the requested run, handing it the pending clicks
StartRun ==
    /\ pc = "pending"
    /\ pc' = "sidebar"
    /\ buttons' = clicked
    /\ clicked' = {}
    /\ run' = NoRun
    /\ UNCHANGED <<calcVars, sweepVars, w_ktg_zakl, w_t_vosst_sist, t_min, t_max,
                   session_state, drawn>>

\* lines 88 and 94: the preset whose button is True in this run; line 94 is
\* reached only when line 88 was False
PresetClicked(bs) ==
    IF "optimistic" \in bs THEN "optimistic"
    ELSE IF "realistic" \in bs THEN "realistic"
    ELSE "none"

\* lines 90 and 96: the system time a preset stores
PresetSystemTime(preset) ==
    IF preset = "optimistic" THEN t_vosst_sist_optim ELSE t_vosst_sist_default

\* lines 111-112: the baseline and the system time that line 127 passes on
PassedBaseline(ss, slider) ==
    IF "ktg_zakl" \in DOMAIN ss THEN ss["ktg_zakl"] ELSE ktg_zakl_default
PassedSystemTime(ss, number_input) ==
    IF "t_vosst_sist" \in DOMAIN ss THEN ss["t_vosst_sist"] ELSE t_vosst_sist_default

\* line 510: if calculate_button or 'auto_calculate' in st.session_state
WantsRerun(calculate_button, ss) ==
    calculate_button \/ "auto_calculate" \in DOMAIN ss

\* lines 12-94: the sidebar is drawn and the preset buttons are evaluated
RunSidebar ==
    /\ pc = "sidebar"
    /\ drawn' = drawn \cup {"sidebar"}
    /\ pc' = IF PresetClicked(buttons) = "none" THEN "init_ktg_zakl"
             ELSE "preset_ktg_zakl"
    /\ UNCHANGED <<calcVars, sweepVars, w_ktg_zakl, w_t_vosst_sist, t_min, t_max,
                   clicked, buttons, session_state, run>>

\* line 89 or 95: st.session_state.ktg_zakl = 0.05
RunPresetBaseline ==
    /\ pc = "preset_ktg_zakl"
    /\ session_state' = SetKey(session_state, "ktg_zakl", ktg_zakl_default)
    /\ pc' = "preset_t_vosst_sist"
    /\ UNCHANGED <<calcVars, sweepVars, w_ktg_zakl, w_t_vosst_sist, t_min, t_max,
                   clicked, buttons, drawn, run>>

\* lines 90-91 or 96-97: st.session_state.t_vosst_sist = ..., then st.rerun()
RunPresetSystemTime ==
    /\ pc = "preset_t_vosst_sist"
    /\ session_state' = SetKey(session_state, "t_vosst_sist",
                               PresetSystemTime(PresetClicked(buttons)))
    /\ run' = [NoRun EXCEPT !.ended = "rerun"]
    /\ buttons' = {}
    /\ pc' = "pending"
    /\ UNCHANGED <<calcVars, sweepVars, w_ktg_zakl, w_t_vosst_sist, t_min, t_max,
                   clicked, drawn>>

\* lines 99-106: the title, then the default of ktg_zakl
RunInitBaseline ==
    /\ pc = "init_ktg_zakl"
    /\ session_state' = SetDefault(session_state, "ktg_zakl", ktg_zakl_default)
    /\ pc' = "init_t_vosst_sist"
    /\ UNCHANGED <<calcVars, sweepVars, w_ktg_zakl, w_t_vosst_sist, t_min, t_max,
                   clicked, buttons, drawn, run>>

\* lines 107-108: the default of t_vosst_sist
RunInitSystemTime ==
    /\ pc = "init_t_vosst_sist"
    /\ session_state' = SetDefault(session_state, "t_vosst_sist",
                                   t_vosst_sist_default)
    /\ pc' = "main"
    /\ UNCHANGED <<calcVars, sweepVars, w_ktg_zakl, w_t_vosst_sist, t_min, t_max,
                   clicked, buttons, drawn, run>>

\* lines 111-127: the values are read from the session state and the sweep is
\* generated
RunMain ==
    /\ pc = "main"
    /\ UNCHANGED <<calcVars, sweepVars, w_ktg_zakl, w_t_vosst_sist, t_min, t_max,
                   clicked, session_state>>
    /\ LET kz  == PassedBaseline(session_state, w_ktg_zakl)
           ts  == PassedSystemTime(session_state, w_t_vosst_sist)
           out == generate_data(kz, ts, t_min, t_max)            \* line 127
           r   == [NoRun EXCEPT !.generated = TRUE,
                                !.ktg_zakl = kz, !.t_vosst_sist = ts,
                                !.t_min = t_min, !.t_max = t_max, !.out = out]
       IN  IF out.err # "none" THEN
               \* the exception ends the run at line 127, before any tab
               /\ run' = [r EXCEPT !.ended = out.err]
               /\ buttons' = {}
               /\ drawn' = {"sidebar"}
               /\ pc' = "idle"
           ELSE
               /\ run' = r
               /\ pc' = "tabs"
               /\ UNCHANGED <<buttons, drawn>>

\* lines 129-507: the four tabs
RunTabs ==
    /\ pc = "tabs"
    /\ UNCHANGED <<calcVars, sweepVars, w_ktg_zakl, w_t_vosst_sist, t_min, t_max,
                   clicked, session_state>>
    /\ IF Len(run.out.ktg_values) = 0 THEN
            \* line 206: max() of an empty list raises ValueError, in the first tab
            /\ run' = [run EXCEPT !.ended = "ValueError"]
            /\ buttons' = {}
            /\ drawn' = {"sidebar"}
            /\ pc' = "idle"
       ELSE
            /\ run' = [run EXCEPT !.ktg_max = MaxOf(run.out.ktg_values)]
            /\ drawn' = drawn \cup {"tabs"}
            /\ pc' = "tail"
            /\ UNCHANGED buttons

\* lines 509-512
RunTail ==
    /\ pc = "tail"
    /\ buttons' = {}
    /\ UNCHANGED <<calcVars, sweepVars, w_ktg_zakl, w_t_vosst_sist, t_min, t_max,
                   clicked, drawn>>
    /\ IF WantsRerun("calculate" \in buttons, session_state) THEN
            /\ session_state' = SetKey(session_state, "auto_calculate", TRUE)
            /\ run' = [run EXCEPT !.ended = "rerun"]
            /\ pc' = "pending"
       ELSE
            /\ run' = [run EXCEPT !.ended = "done"]
            /\ pc' = "idle"
            /\ UNCHANGED session_state

\* One execution of the script, lines 12-512, step by step.
ScriptRun ==
    \/ RunSidebar
    \/ RunPresetBaseline
    \/ RunPresetSystemTime
    \/ RunInitBaseline
    \/ RunInitSystemTime
    \/ RunMain
    \/ RunTabs
    \/ RunTail

Next ==
    \/ UserAction
    \/ StartRun
    \/ ScriptRun

Spec == Init /\ [][Next]_vars

\* The runtime starts every run that is requested, and a run that is not
\* stopped goes on to its next step.  The step of lines 111-127 is enabled
\* exactly while pc = "main" and always leaves it, so the last conjunct is
\* WF_vars(RunMain).
FairSpec ==
    /\ Spec
    /\ WF_vars(StartRun)
    /\ WF_vars(RunSidebar)
    /\ WF_vars(RunPresetBaseline)
    /\ WF_vars(RunPresetSystemTime)
    /\ WF_vars(RunInitBaseline)
    /\ WF_vars(RunInitSystemTime)
    /\ WF_vars(RunTabs)
    /\ WF_vars(RunTail)
    /\ []<>(pc # "main")

(***************************************************************************)
(* Properties of calculate_ktg (CalcSpec).                                 *)
(***************************************************************************)
ValidBaseline(b) == RLe(KtgFloor, b) /\ RLe(b, One)
ValidCall(c) == c.made /\ ValidBaseline(c.b) /\ RLt(Zero, c.h)
\* baseline * systemTime / historicalTime, for a call with h # 0
RawOf(c) == RMul(c.b, RDiv(c.s, c.h))

\* C1: every call of calculate_ktg that returns a value returns one in
\* [0.01, 1.0], whatever the system time and however large the ratio.
C1_ResultInRange ==
    (call.made /\ call.out.err = "none")
        => (RLe(KtgFloor, call.out.value) /\ RLe(call.out.value, One))

\* a returning call whose raw product is far above 1
C1_Witness ==
    /\ ValidCall(call)
    /\ call.out.err = "none"
    /\ RLt(Hundred, RawOf(call))
    /\ call.out.value = One

\* C2: calculate_ktg raises ValueError exactly when historicalTime <= 0 or the
\* baseline is outside [0.01, 1.0]; on every other input it returns a value.
C2_RaisesExactlyOnInvalid ==
    call.made =>
        /\ (call.out.err = "ValueError")
              <=> (RLe(call.h, Zero) \/ RLt(call.b, KtgFloor) \/ RLt(One, call.b))
        /\ (call.out.err = "none")
              <=> ~(RLe(call.h, Zero) \/ RLt(call.b, KtgFloor) \/ RLt(One, call.b))

\* a call with a valid baseline and historicalTime = 0 has raised
C2_Witness ==
    /\ call.made
    /\ ValidBaseline(call.b)
    /\ call.h = Zero
    /\ call.out.err = "ValueError"

\* C3: on valid input the result is clamp(baseline * systemTime / historicalTime,
\* 0.01, 1.0): the raw product inside the interval, 1.0 above it, 0.01 below it;
\* compute(0.05, 2.0, 4.0) = 0.025 and compute(0.05, 2.0, 0.05) = 1.0.
C3_ClampedProduct ==
    ValidCall(call) =>
        /\ call.out.err = "none"
        /\ call.out.value =
              (IF RLt(One, RawOf(call)) THEN One
               ELSE IF RLt(RawOf(call), KtgFloor) THEN KtgFloor
               ELSE RawOf(call))
        /\ (call.b = Rat(1, 20) /\ call.s = FromInt(2) /\ call.h = FromInt(4))
              => call.out.value = Rat(25, 1000)
        /\ (call.b = Rat(1, 20) /\ call.s = FromInt(2) /\ call.h = Rat(1, 20))
              => call.out.value = One

\* scenario 1 has been computed, unclamped
C3_Witness ==
    /\ call.made
    /\ call.b = Rat(1, 20) /\ call.s = FromInt(2) /\ call.h = FromInt(4)
    /\ call.out = Returned(Rat(1, 40))

\* C4: over valid inputs the result is non-increasing in historicalTime (for
\* systemTime >= 0) and non-decreasing in systemTime.
C4_Monotone ==
    (ValidCall(prevCall) /\ ValidCall(call)
        /\ prevCall.out.err = "none" /\ call.out.err = "none"
        /\ prevCall.b = call.b)
    =>  /\ (prevCall.s = call.s /\ RLe(Zero, call.s) /\ RLe(prevCall.h, call.h))
              => RLe(call.out.value, prevCall.out.value)
        /\ (prevCall.s = call.s /\ RLe(Zero, call.s) /\ RLe(call.h, prevCall.h))
              => RLe(prevCall.out.value, call.out.value)
        /\ (prevCall.h = call.h /\ RLe(prevCall.s, call.s))
              => RLe(prevCall.out.value, call.out.value)
        /\ (prevCall.h = call.h /\ RLe(call.s, prevCall.s))
              => RLe(call.out.value, prevCall.out.value)

\* two calls that differ in historicalTime only, the later time giving a
\* strictly smaller result
C4_Witness ==
    /\ ValidCall(prevCall) /\ ValidCall(call)
    /\ prevCall.b = call.b /\ prevCall.s = call.s
    /\ RLt(Zero, call.s)
    /\ RLt(prevCall.h, call.h)
    /\ prevCall.out.err = "none" /\ call.out.err = "none"
    /\ RLt(call.out.value, prevCall.out.value)

\* C7: systemTime is not validated: with a valid baseline and historicalTime > 0
\* a call with systemTime <= 0 raises nothing and returns the floor 0.01.
C7_NonPositiveSystemTimeFloors ==
    (ValidCall(call) /\ RLe(call.s, Zero)) => call.out = Returned(KtgFloor)

\* compute(0.5, 0, 10.0) has returned 0.01
C7_Witness ==
    /\ call.made
    /\ call.b = Half /\ call.s = Zero /\ call.h = FromInt(10)
    /\ call.out = Returned(Rat(1, 100))

(***************************************************************************)
(* Properties of generate_data (SweepSpec).                                *)
(***************************************************************************)
\* C5: for positive integer bounds tMin <= tMax the time sequence starts at
\* tMin, ends at tMax, rises by exactly 0.5 per element and has
\* 2 * (tMax - tMin) + 1 elements; bounds 4 and 6 give [4.0, 4.5, 5.0, 5.5, 6.0].
C5_SweepTimes ==
    (sweep.made /\ ValidBaseline(sweep.b) /\ 1 <= sweep.tMin /\ sweep.tMin <= sweep.tMax)
    =>  LET times == sweep.out.t_vosst_range
        IN  /\ sweep.out.err = "none"
            /\ Len(times) = 2 * (sweep.tMax - sweep.tMin) + 1
            /\ times[1] = FromInt(sweep.tMin)
            /\ times[Len(times)] = FromInt(sweep.tMax)
            /\ \A i \in 1..(Len(times) - 1) : RSub(times[i + 1], times[i]) = Half
            /\ (sweep.tMin = 4 /\ sweep.tMax = 6)
                  => times = <<FromInt(4), Rat(9, 2), FromInt(5), Rat(11, 2), FromInt(6)>>

\* the sweep over 4..6 has been generated with its five times
C5_Witness ==
    /\ sweep.made
    /\ sweep.tMin = 4 /\ sweep.tMax = 6
    /\ sweep.out.err = "none"
    /\ Len(sweep.out.t_vosst_range) = 5

\* C6: the three sequences are parallel: equal lengths, results[i] is
\* calculate_ktg(baseline, systemTime, times[i]) and percentChanges[i] is
\* (results[i] - baseline) / baseline * 100, the baseline never being zero; a
\* baseline the Calculator accepts makes the call return.
C6_ParallelSequences ==
    /\ (sweep.made /\ ValidBaseline(sweep.b) /\ 1 <= sweep.tMin)
          => sweep.out.err = "none"
    /\ (sweep.made /\ sweep.out.err = "none") =>
          LET times == sweep.out.t_vosst_range
              res   == sweep.out.ktg_values
              pct   == sweep.out.ktg_change_percent
          IN  /\ Len(res) = Len(times)
              /\ Len(pct) = Len(times)
              /\ \A i \in 1..Len(times) :
                    /\ sweep.b.n # 0
                    /\ Returned(res[i]) = calculate_ktg(sweep.b, sweep.s, times[i])
                    /\ RMul(pct[i], sweep.b) = RMul(RSub(res[i], sweep.b), Hundred)

\* scenario 3: baseline 0.05, systemTime 2.0 over 4..6 starts at 0.025, which is
\* 50 % below the baseline
C6_Witness ==
    /\ sweep.made
    /\ sweep.b = Rat(1, 20) /\ sweep.s = FromInt(2)
    /\ sweep.tMin = 4 /\ sweep.tMax = 6
    /\ sweep.out.err = "none"
    /\ sweep.out.ktg_values[1] = Rat(1, 40)
    /\ sweep.out.ktg_change_percent[1] = FromInt(-50)

(***************************************************************************)
(* Properties of the page (Spec, FairSpec).                                *)
(***************************************************************************)
\* C8: in every script run the baseline and the system time passed to
\* generate_data are the values the sidebar widgets hold, so that a change the
\* user makes shows in the sweep of that run.
C8_WidgetValuesPassed ==
    run.generated =>
        /\ run.ktg_zakl = w_ktg_zakl
        /\ run.t_vosst_sist = w_t_vosst_sist

\* C9: after a user trigger the page performs finitely many script runs and
\* then rests (a run ends without requesting another) until the user acts
\* again: a behaviour either comes to rest again and again, or the user keeps
\* acting.
C9_ComesToRest ==
    []<>(pc = "idle" \/ RequestedByUser)

\* C10: whatever range bounds the sidebar holds, the call of generate_data gets
\* t_min <= t_max and returns a non-empty sweep, so that the run goes on to take
\* max, min and mean of the results without an exception.
C10_SweepNonEmpty ==
    run.generated =>
        /\ run.t_min <= run.t_max
        /\ run.out.err = "none"
        /\ Len(run.out.ktg_values) > 0
        /\ run.ended \in {"none", "done", "rerun"}

====
